---- MODULE Spec2Model ----
(***************************************************************************)
(* A model of newick.py: the Node class (construction, the newick         *)
(* property, walk and _postorder) and the parser (parse_node,              *)
(* _parse_siblings, _parse_name_and_length).                               *)
(*                                                                         *)
(* A Python str is a sequence of one-character strings.  An optional value *)
(* (None or a value) is a sequence of length at most one: None is <<>> and *)
(* the value x is <<x>>, so the empty str "" (<< <<>> >>) and None differ. *)
(***************************************************************************)
EXTENDS Naturals, Integers, Sequences, FiniteSets, TLC

\* ------------------------------------------------------------------ bounds

MaxTextLen == 6
MaxLabelLen == 2
MaxTreeNodes == 3
MaxTreeLabelLen == 1
MaxNodes == 5

\* ----------------------------------------------------------- Python values

None == <<>>

Some(x) == <<x>>

\* Python truthiness of an optional str: None and "" are falsy.
Truthy(o) == o # None /\ o[1] # <<>>

\* `x or ''`
OrEmpty(o) == IF Truthy(o) THEN o[1] ELSE <<>>

\* `s or None`
OrNone(s) == IF s = <<>> THEN None ELSE Some(s)

\* `c in s`
Contains(s, c) == \E i \in 1..Len(s) : s[i] = c

\* The whitespace str.strip() removes (the blank and the line break).
Whitespace == {" ", "\n"}

RECURSIVE lstrip(_)
lstrip(s) ==
    IF s # <<>> /\ s[1] \in Whitespace THEN lstrip(Tail(s)) ELSE s

RECURSIVE rstrip(_)
rstrip(s) ==
    IF s # <<>> /\ s[Len(s)] \in Whitespace
    THEN rstrip(SubSeq(s, 1, Len(s) - 1))
    ELSE s

strip(s) == rstrip(lstrip(s))

\* s.split(c) with no limit: the parts between the occurrences of c.
RECURSIVE SplitFrom(_, _, _, _)
SplitFrom(s, c, i, cur) ==
    IF i > Len(s) THEN <<cur>>
    ELSE IF s[i] = c THEN <<cur>> \o SplitFrom(s, c, i + 1, <<>>)
    ELSE SplitFrom(s, c, i + 1, Append(cur, s[i]))

split(s, c) == SplitFrom(s, c, 1, <<>>)

\* c.join(parts)
RECURSIVE join(_, _)
join(c, parts) ==
    IF parts = <<>> THEN <<>>
    ELSE IF Len(parts) = 1 THEN parts[1]
    ELSE parts[1] \o <<c>> \o join(c, Tail(parts))

\* s.split(c, 1) when c is in s: the text before and after the first c.
RECURSIVE IndexFrom(_, _, _)
IndexFrom(s, c, i) == IF s[i] = c THEN i ELSE IndexFrom(s, c, i + 1)

split1(s, c) ==
    LET k == IndexFrom(s, c, 1)
    IN  <<SubSeq(s, 1, k - 1), SubSeq(s, k + 1, Len(s))>>

startswith(s, c) == s # <<>> /\ s[1] = c

\* ------------------------------------------------------------ call results

\* A call returns a value or raises ValueError with one of two messages.
Returned(v) == [raised |-> "", msg |-> "", value |-> v]

Raised(m) == [raised |-> "ValueError", msg |-> m, value |-> None]

MsgLabel == "Node names or branch lengths must not contain"

MsgBraces == "unmatched braces"

\* -------------------------------------------------------------------- Node

RESERVED_PUNCTUATION == <<":", ";", ",", "(", ")">>

CharRejectedInNameOnly(name, length, char) ==
    Truthy(name) /\ Contains(name[1], char)

\* The test of one reserved character against the two labels.
CharRejected(name, length, char) ==
    \/ (Truthy(name) /\ Contains(name[1], char))
    \/ (Truthy(length) /\ Contains(length[1], char))

\* The loop over RESERVED_PUNCTUATION: whether some character raises.
RECURSIVE LabelRaises(_, _, _)
LabelRaises(name, length, i) ==
    IF i > Len(RESERVED_PUNCTUATION) THEN FALSE
    ELSE IF CharRejected(name, length, RESERVED_PUNCTUATION[i]) THEN TRUE
    ELSE LabelRaises(name, length, i + 1)

\* `descendants or []`
DescendantsOrEmpty(descendants) ==
    IF descendants = None \/ descendants[1] = <<>> THEN <<>> ELSE descendants[1]

\* Node(name, length, descendants); each argument is optional.
Node_init(name, length, descendants) ==
    IF LabelRaises(name, length, 1) THEN Raised(MsgLabel)
    ELSE Returned([name |-> name, length |-> length,
                   descendants |-> DescendantsOrEmpty(descendants)])

\* The parentheses around the joined descendants.
Wrap(joined) ==
    IF joined # <<>> THEN <<"(">> \o joined \o <<")">> ELSE joined

Label(n) ==
    IF Truthy(n.length)
    THEN OrEmpty(n.name) \o <<":">> \o n.length[1]
    ELSE OrEmpty(n.name)

RECURSIVE newick(_)
newick(n) ==
    Wrap(join(",", [i \in 1..Len(n.descendants) |-> newick(n.descendants[i])]))
        \o Label(n)

is_leaf(n) == n.descendants = <<>>

\* ------------------------------------------------------------------ parser

parse_name_and_length(s) ==
    IF Contains(s, ":")
    THEN <<OrNone(split1(s, ":")[1]), OrNone(split1(s, ":")[2])>>
    ELSE <<OrNone(s), None>>

BracketMissesClose(level, c) == IF c = "(" THEN level + 1 ELSE level

\* The bracket level after the character c.
BracketLevel(level, c) ==
    IF c = "(" THEN level + 1
    ELSE IF c = ")" THEN level - 1
    ELSE level

RECURSIVE parse_node(_)
RECURSIVE SiblingScan(_, _, _, _, _)

\* The loop of _parse_siblings over t = s + ",", consumed by list(): the
\* nodes yielded so far are acc; the first parse that raises ends it.
SiblingScan(t, i, bracket_level, current, acc) ==
    IF i > Len(t) THEN Returned(acc)
    ELSE IF t[i] = "," /\ bracket_level = 0
         THEN LET r == parse_node(current)
              IN  IF r.raised # "" THEN r
                  ELSE SiblingScan(t, i + 1, bracket_level, <<>>,
                                   Append(acc, r.value))
         ELSE SiblingScan(t, i + 1, BracketLevel(bracket_level, t[i]),
                          Append(current, t[i]), acc)

parse_siblings(s) == SiblingScan(s \o <<",">>, 1, 0, <<>>, <<>>)

\* The last two lines of parse_node.
MakeNode(descendants, label) ==
    Node_init(parse_name_and_length(label)[1],
              parse_name_and_length(label)[2], Some(descendants))

parse_node(s0) ==
    LET s == strip(s0)
        parts == split(s, ")")
    IN  IF Len(parts) = 1 THEN MakeNode(<<>>, s)
        ELSE IF ~startswith(parts[1], "(") THEN Raised(MsgBraces)
        ELSE LET sib == parse_siblings(
                            Tail(join(")", SubSeq(parts, 1, Len(parts) - 1))))
             IN  IF sib.raised # "" THEN sib
                 ELSE MakeNode(sib.value, parts[Len(parts)])

\* ------------------------------------------------------------------- state

VARIABLES
    phase,      \* which call sequence runs, and how far it is
    args,       \* the arguments of a Node(...) call
    tree,       \* a Node built by the caller (optional)
    text,       \* the text given to parse_node, or tree's newick
    result,     \* what the last Node(...) or parse_node call returned or raised
    text2,      \* the newick of the parsed Node
    nodes,      \* the Node objects under traversal, by identity
    root,       \* the Node walk is called on
    heap,       \* the list objects, by reference
    built,      \* each Node's descendants as they were at construction
    wpc,        \* each walk call's position
    wmode,      \* each walk call's mode argument
    frames,     \* default mode: the chain of suspended walk generators
    stack,      \* postorder: the local variable stack
    dmap,       \* postorder: the local variable descendant_map
    out         \* the Nodes each walk call has yielded so far

pvars == <<phase, args, tree, text, result, text2>>

wvars == <<nodes, root, heap, built, wpc, wmode, frames, stack, dmap, out>>

vars == <<phase, args, tree, text, result, text2,
          nodes, root, heap, built, wpc, wmode, frames, stack, dmap, out>>

Walkers == {1, 2}

NoResult == Returned(None)

\* No traversal: the state of the walk variables in the specifications of
\* the constructor, the serializer and the parser.
NoWalk ==
    /\ nodes = <<>>
    /\ root = 0
    /\ heap = <<>>
    /\ built = <<>>
    /\ wpc = [w \in Walkers |-> "idle"]
    /\ wmode = [w \in Walkers |-> "none"]
    /\ frames = [w \in Walkers |-> <<>>]
    /\ stack = [w \in Walkers |-> <<>>]
    /\ dmap = [w \in Walkers |-> <<>>]
    /\ out = [w \in Walkers |-> <<>>]

\* ------------------------------------------------------------------ inputs

\* All str values over the characters chars, up to length n.
Strs(chars, n) == UNION {[1..k -> chars] : k \in 0..n}

Optional(S) == {None} \cup {Some(x) : x \in S}

\* Characters of constructor arguments: the reserved ones and two others.
LabelChars == {":", ";", ",", "(", ")", "a", " "}

LabelArgs == Optional(Strs(LabelChars, MaxLabelLen))

LeafA == [name |-> Some(<<"a">>), length |-> None, descendants |-> <<>>]

LeafB == [name |-> Some(<<"b">>), length |-> Some(<<"1">>), descendants |-> <<>>]

DescendantArgs ==
    {None, Some(<<>>), Some(<<LeafA>>), Some(<<LeafA, LeafB>>),
     Some(<<LeafB, LeafA>>)}

\* Characters of parser input.
TextChars == {"(", ")", ",", ":", " ", "a"}

ExampleSiblings ==
    <<"(", "a", ",", "(", "b", ",", "c", ")", ",", "d", ")">>

ExampleUnmatched == <<"a", ")", "b">>

ExampleNested ==
    <<"(", "a", ",", "(", "b", ",", "c", ")", "d", ")", "e">>

Texts ==
    Strs(TextChars, MaxTextLen)
        \cup {ExampleSiblings, ExampleUnmatched, ExampleNested}

\* Characters of the labels of the trees that are serialized: text, a blank
\* and one reserved character (which construction rejects).
TreeLabelChars == {"a", " ", ","}

TreeLabelArgs == Optional(Strs(TreeLabelChars, MaxTreeLabelLen))

\* The Nodes that Node(name, length, descendants) returns for the given
\* sequences of descendants.
Constructed(forests) ==
    {r.value :
        r \in {q \in {Node_init(n, l, Some(f)) :
                        n \in TreeLabelArgs, l \in TreeLabelArgs, f \in forests} :
                 q.raised = ""}}

RECURSIVE TreesOfSize(_)
RECURSIVE ForestsOfSize(_)

\* The non-empty sequences of constructed trees with k Nodes in all.
ForestsOfSize(k) ==
    IF k = 0 THEN {}
    ELSE {<<t>> : t \in TreesOfSize(k)}
         \cup UNION {{<<t>> \o f : t \in TreesOfSize(j), f \in ForestsOfSize(k - j)} :
                       j \in 1..(k - 1)}

\* The trees of k Nodes that the constructor builds bottom-up.
TreesOfSize(k) ==
    IF k = 1 THEN Constructed({<<>>})
    ELSE Constructed(ForestsOfSize(k - 1))

ValidTrees == UNION {TreesOfSize(k) : k \in 1..MaxTreeNodes}

\* ------------------------------------------- constructor, serializer, parser

ExampleArgs ==
    {[name |-> Some(<<"a", ":", "b">>), length |-> None, descendants |-> None],
     [name |-> None, length |-> Some(<<"1", ",", "2">>), descendants |-> None],
     [name |-> Some(<<"a", "b">>), length |-> Some(<<"1", ".", "5">>),
      descendants |-> None]}

InitConstruct ==
    /\ phase = "args"
    /\ args \in [name : LabelArgs, length : LabelArgs, descendants : DescendantArgs]
                    \cup ExampleArgs
    /\ tree = None /\ text = <<>> /\ result = NoResult /\ text2 = <<>>
    /\ NoWalk

\* Node(name, length, descendants)
Construct ==
    /\ phase = "args"
    /\ result' = Node_init(args.name, args.length, args.descendants)
    /\ phase' = "constructed"
    /\ UNCHANGED <<args, tree, text, text2>>
    /\ UNCHANGED wvars

InitParse ==
    /\ phase = "text"
    /\ text \in Texts
    /\ args = None /\ tree = None /\ result = NoResult /\ text2 = <<>>
    /\ NoWalk

InitTree ==
    /\ phase = "tree"
    /\ tree \in Optional(ValidTrees) \ {None}
    /\ args = None /\ text = <<>> /\ result = NoResult /\ text2 = <<>>
    /\ NoWalk

\* tree.newick
Serialize ==
    /\ phase = "tree"
    /\ text' = newick(tree[1])
    /\ phase' = "serialized"
    /\ UNCHANGED <<args, tree, result, text2>>
    /\ UNCHANGED wvars

\* parse_node(text)
Parse ==
    /\ phase \in {"text", "serialized"}
    /\ result' = parse_node(text)
    /\ phase' = "parsed"
    /\ UNCHANGED <<args, tree, text, text2>>
    /\ UNCHANGED wvars

\* parse_node(tree.newick).newick
Reserialize ==
    /\ phase = "parsed"
    /\ tree # None
    /\ result.raised = ""
    /\ text2' = newick(result.value)
    /\ phase' = "reserialized"
    /\ UNCHANGED <<args, tree, text, result>>
    /\ UNCHANGED wvars

NextConstruct == Construct

NextParse == Parse

NextTree == Serialize \/ Parse \/ Reserialize

SpecConstruct == InitConstruct /\ [][NextConstruct]_vars

SpecParse == InitParse /\ [][NextParse]_vars

SpecTree == InitTree /\ [][NextTree]_vars

\* --------------------------------------------------------------- traversal

Letters == <<"a", "b", "c", "d", "e", "f", "g", "h">>

\* The reference of the list object that is Node n's descendants.
TreeRef(n) == <<0, n>>

RECURSIVE SortedSeq(_)
SortedSeq(S) ==
    IF S = {} THEN <<>>
    ELSE LET m == CHOOSE x \in S : \A y \in S : x <= y
         IN  <<m>> \o SortedSeq(S \ {m})

Reverse(s) == [i \in 1..Len(s) |-> s[Len(s) + 1 - i]]

\* The trees of n Nodes, built bottom-up (a Node's descendants exist before
\* it does, so the root is Node n): p[i] is the parent of Node i.
ParentVectors(n) ==
    {p \in [1..(n - 1) -> 2..n] :
        \A i \in 1..(n - 1) :
            /\ p[i] > i
            /\ \A k \in (i + 1)..(p[i] - 1) : p[k] <= p[i]}

\* The descendants of Node j, in the order given to its constructor.
ChildrenOf(p, j, rev) ==
    LET asc == SortedSeq({i \in DOMAIN p : p[i] = j})
    IN  IF rev THEN Reverse(asc) ELSE asc

\* The tree (a,(b,c)d)e.
ExampleParents == <<5, 4, 4, 5>>

TreeShapes ==
    {[j \in 1..(Len(p) + 1) |-> ChildrenOf(p, j, rev)] :
        p \in UNION {ParentVectors(n) : n \in 1..MaxNodes}, rev \in BOOLEAN}
    \cup {[j \in 1..5 |-> ChildrenOf(ExampleParents, j, FALSE)]}

InitWalk ==
    /\ phase = "walk"
    /\ args = None /\ tree = None /\ text = <<>> /\ result = NoResult /\ text2 = <<>>
    /\ built \in TreeShapes
    /\ root = Len(built)
    /\ nodes = [j \in DOMAIN built |->
                  [name |-> Some(<<Letters[j]>>), length |-> None,
                   descendants |-> TreeRef(j)]]
    /\ heap = [r \in {TreeRef(j) : j \in DOMAIN built} |-> built[r[2]]]
    /\ wpc = [w \in Walkers |-> "idle"]
    /\ wmode = [w \in Walkers |-> "none"]
    /\ frames = [w \in Walkers |-> <<>>]
    /\ stack = [w \in Walkers |-> <<>>]
    /\ dmap = [w \in Walkers |-> <<>>]
    /\ out = [w \in Walkers |-> <<>>]

\* root.walk(mode): a new generator, which has not run yet.
WalkCall(w, mode) ==
    /\ phase = "walk"
    /\ wpc[w] = "idle"
    /\ wpc' = [wpc EXCEPT ![w] = "new"]
    /\ wmode' = [wmode EXCEPT ![w] = mode]
    /\ UNCHANGED <<nodes, root, heap, built, frames, stack, dmap, out>>
    /\ UNCHANGED pvars

\* The list a walk generator iterates: the Node's own descendants.
Descendants(n) == heap[nodes[n].descendants]

\* Default mode, `yield self` of the outermost generator.
WalkYieldSelf(w) ==
    /\ wpc[w] = "new"
    /\ wmode[w] # "postorder"
    /\ frames' = [frames EXCEPT ![w] = <<[node |-> root, idx |-> 0]>>]
    /\ out' = [out EXCEPT ![w] = Append(@, root)]
    /\ wpc' = [wpc EXCEPT ![w] = "run"]
    /\ UNCHANGED <<nodes, root, heap, built, wmode, stack, dmap>>
    /\ UNCHANGED pvars

NextChildReversed(descendants, idx) == descendants[Len(descendants) - idx]

\* The element the for loop over a list takes after idx elements.
NextChild(descendants, idx) == descendants[idx + 1]

\* Default mode: the innermost generator's for loop takes its next child,
\* whose own walk() yields the child itself.
WalkDescend(w) ==
    /\ wpc[w] = "run"
    /\ wmode[w] # "postorder"
    /\ LET top == frames[w][Len(frames[w])]
       IN  /\ top.idx < Len(Descendants(top.node))
           /\ LET child == NextChild(Descendants(top.node), top.idx)
              IN  /\ frames' = [frames EXCEPT ![w] =
                        Append([@ EXCEPT ![Len(@)].idx = top.idx + 1],
                               [node |-> child, idx |-> 0])]
                  /\ out' = [out EXCEPT ![w] = Append(@, child)]
    /\ UNCHANGED <<nodes, root, heap, built, wpc, wmode, stack, dmap>>
    /\ UNCHANGED pvars

\* Default mode: the innermost generator's for loop is exhausted, and the
\* generator ends; with the outermost one the walk ends.
WalkReturn(w) ==
    /\ wpc[w] = "run"
    /\ wmode[w] # "postorder"
    /\ LET top == frames[w][Len(frames[w])]
       IN  top.idx >= Len(Descendants(top.node))
    /\ frames' = [frames EXCEPT ![w] = SubSeq(@, 1, Len(@) - 1)]
    /\ wpc' = [wpc EXCEPT ![w] = IF Len(frames[w]) = 1 THEN "done" ELSE "run"]
    /\ UNCHANGED <<nodes, root, heap, built, wmode, stack, dmap, out>>
    /\ UNCHANGED pvars

\* The Nodes self.walk() yields, run to its end on the lists as they are.
RECURSIVE WalkAll(_)
WalkAll(n) ==
    LET RECURSIVE Rest(_)
        Rest(i) == IF i > Len(Descendants(n)) THEN <<>>
                   ELSE WalkAll(Descendants(n)[i]) \o Rest(i + 1)
    IN  <<n>> \o Rest(1)

ListAlias(w, n) == nodes[n].descendants

\* The list object `[n for n in node.descendants]` of walk call w.
ListCopy(w, n) == <<w, n>>

\* _postorder up to its loop: the stack and descendant_map.
PostorderStart(w) ==
    /\ wpc[w] = "new"
    /\ wmode[w] = "postorder"
    /\ LET visited == {WalkAll(root)[i] : i \in 1..Len(WalkAll(root))}
           copies == {ListCopy(w, n) : n \in visited}
       IN  /\ dmap' = [dmap EXCEPT ![w] = [n \in visited |-> ListCopy(w, n)]]
           /\ heap' = [r \in DOMAIN heap \cup copies |->
                         IF r \in copies
                         THEN Descendants(CHOOSE n \in visited : ListCopy(w, n) = r)
                         ELSE heap[r]]
    /\ stack' = [stack EXCEPT ![w] = <<root>>]
    /\ wpc' = [wpc EXCEPT ![w] = "run"]
    /\ UNCHANGED <<nodes, root, built, wmode, frames, out>>
    /\ UNCHANGED pvars

LastRemaining(descendants) == descendants[Len(descendants)]

\* descendants[0]
FirstRemaining(descendants) == descendants[1]

\* _postorder, the else branch of the loop: push a remaining child.
PostorderPush(w) ==
    /\ wpc[w] = "run"
    /\ wmode[w] = "postorder"
    /\ LET node == stack[w][Len(stack[w])]
           descendants == heap[dmap[w][node]]
       IN  /\ descendants # <<>>
           /\ stack' = [stack EXCEPT ![w] = Append(@, FirstRemaining(descendants))]
    /\ UNCHANGED <<nodes, root, heap, built, wpc, wmode, frames, dmap, out>>
    /\ UNCHANGED pvars

PopLast(l) == SubSeq(l, 1, Len(l) - 1)

\* list.pop(0)
PopFirst(l) == Tail(l)

\* _postorder, the if branch of the loop: pop the top, yield it, and pop the
\* first entry of the list of the new top; the loop ends on an empty stack.
PostorderPop(w) ==
    /\ wpc[w] = "run"
    /\ wmode[w] = "postorder"
    /\ LET node == stack[w][Len(stack[w])]
           rest == SubSeq(stack[w], 1, Len(stack[w]) - 1)
       IN  /\ heap[dmap[w][node]] = <<>>
           /\ stack' = [stack EXCEPT ![w] = rest]
           /\ out' = [out EXCEPT ![w] = Append(@, node)]
           /\ heap' = IF rest # <<>>
                      THEN [heap EXCEPT ![dmap[w][rest[Len(rest)]]] = PopFirst(@)]
                      ELSE heap
           /\ wpc' = [wpc EXCEPT ![w] = IF rest = <<>> THEN "done" ELSE "run"]
    /\ UNCHANGED <<nodes, root, built, wmode, frames, dmap>>
    /\ UNCHANGED pvars

\* One step of walk call w.
Step(w) ==
    \/ WalkYieldSelf(w)
    \/ WalkDescend(w)
    \/ WalkReturn(w)
    \/ PostorderStart(w)
    \/ PostorderPush(w)
    \/ PostorderPop(w)

Next ==
    \E w \in Walkers :
        \/ \E mode \in {"none", "postorder"} : WalkCall(w, mode)
        \/ Step(w)

Spec == InitWalk /\ [][Next]_vars

\* The caller of a walk keeps taking from it.
SpecFair == Spec /\ \A w \in Walkers : WF_vars(Step(w))

\* ------------------------------------------------------- claims: Node(...)

ReservedChars == {":", ";", ",", "(", ")"}

HasReserved(o) == o # None /\ \E i \in 1..Len(o[1]) : o[1][i] \in ReservedChars

\* C6: Node(name, length, descendants) raises the label error if and only if
\* name or length holds a reserved character; otherwise the Node holds the
\* given name and length and the given descendants in their order, the empty
\* sequence when they are omitted.  "a:b" as name and "1,2" as length raise;
\* name "ab" with length "1.5" is accepted.
C6_ConstructValidation ==
    phase = "constructed" =>
        /\ IF HasReserved(args.name) \/ HasReserved(args.length)
           THEN result.raised = "ValueError" /\ result.msg = MsgLabel
           ELSE /\ result.raised = ""
                /\ result.value.name = args.name
                /\ result.value.length = args.length
                /\ result.value.descendants =
                     (IF args.descendants = None THEN <<>> ELSE args.descendants[1])
        /\ (args.name = Some(<<"a", ":", "b">>) => result.raised = "ValueError")
        /\ (args.length = Some(<<"1", ",", "2">>) => result.raised = "ValueError")
        /\ (args.name = Some(<<"a", "b">>) /\ args.length = Some(<<"1", ".", "5">>)
                => result.raised = "")

\* A call rejected for its length alone.
C6_Witness ==
    /\ phase = "constructed"
    /\ args.name = Some(<<"a">>)
    /\ args.length = Some(<<"a", ",">>)
    /\ args.descendants = Some(<<LeafA, LeafB>>)
    /\ result.raised = "ValueError"

\* ------------------------------------------------------ claims: parse_node

\* The bracket depth of s after its first k characters.
Depth(s, k) ==
    Cardinality({j \in 1..k : s[j] = "("}) - Cardinality({j \in 1..k : s[j] = ")"})

Balanced(s) ==
    /\ \A k \in 1..Len(s) : Depth(s, k) >= 0
    /\ Depth(s, Len(s)) = 0

Unmatched(s) == ~Balanced(s)

\* C2: parse_node raises on every text whose parentheses are unmatched, and
\* returns no Node; on "a)b" it raises the unmatched-braces error.  (Both of
\* the documented error kinds are ValueError in the code.)
C2_UnmatchedRaises ==
    phase = "parsed" /\ Unmatched(text) =>
        /\ result.raised = "ValueError"
        /\ (text = ExampleUnmatched => result.msg = MsgBraces)

LastClose(s) ==
    CHOOSE k \in 1..Len(s) : s[k] = ")" /\ \A j \in (k + 1)..Len(s) : s[j] # ")"

\* The text between the first "(" and the last ")".
Inner(s) == SubSeq(s, 2, LastClose(s) - 1)

IsGroup(s) == Contains(s, ")") /\ s[1] = "(" /\ Balanced(Inner(s))

\* The positions of the commas of s at depth 0.
TopCommas(s) == {k \in 1..Len(s) : s[k] = "," /\ Depth(s, k) = 0}

Cuts(s) == {0, Len(s) + 1} \cup TopCommas(s)

NthCut(s, i) == CHOOSE c \in Cuts(s) : Cardinality({d \in Cuts(s) : d < c}) = i

\* The i-th of the substrings of s between its depth-0 commas.
Segment(s, i) == SubSeq(s, NthCut(s, i - 1) + 1, NthCut(s, i) - 1)

Leaf(c) == [name |-> Some(<<c>>), length |-> None, descendants |-> <<>>]

Inner2(kids) == [name |-> None, length |-> None, descendants |-> kids]

\* C4: for a parenthesized group whose inner text is balanced, parse_node
\* returns one child per substring between the depth-0 commas (their number
\* plus one), in text order, each the parse of its substring, and raises when
\* one of these parses raises; "(a,(b,c),d)" gives three children: a, a
\* subtree with the children b and c, and d.
C4_SiblingsAtDepthZero ==
    /\ phase = "parsed" /\ IsGroup(strip(text)) =>
         LET inner == Inner(strip(text))
             n == Cardinality(TopCommas(inner)) + 1
         IN  /\ (\E i \in 1..n : parse_node(Segment(inner, i)).raised # "")
                    => result.raised # ""
             /\ result.raised = "" =>
                    /\ Len(result.value.descendants) = n
                    /\ \A i \in 1..n :
                         result.value.descendants[i]
                             = parse_node(Segment(inner, i)).value
    /\ phase = "parsed" /\ text = ExampleSiblings =>
         /\ result.raised = ""
         /\ result.value =
              Inner2(<<Leaf("a"), Inner2(<<Leaf("b"), Leaf("c")>>), Leaf("d")>>)

\* A group with a comma inside an inner pair of parentheses, parsed.
C4_Witness ==
    /\ phase = "parsed"
    /\ text = ExampleSiblings
    /\ result.raised = ""
    /\ Len(result.value.descendants) = 3

\* ------------------------------------------- claims: newick and round trip

\* C1: the round trip on text: for every tree built by the constructor,
\* parse_node(tree.newick) returns a Node whose newick is tree.newick.
C1_RoundTripText ==
    /\ (phase = "parsed" /\ tree # None => result.raised = "")
    /\ (phase = "reserialized" => text2 = text)

\* A label that is empty counts as absent.
SameLabel(a, b) ==
    IF Truthy(a) THEN Truthy(b) /\ a[1] = b[1] ELSE ~Truthy(b)

RECURSIVE SameShape(_, _)
SameShape(a, b) ==
    /\ SameLabel(a.name, b.name)
    /\ SameLabel(a.length, b.length)
    /\ Len(a.descendants) = Len(b.descendants)
    /\ \A i \in 1..Len(a.descendants) :
         SameShape(a.descendants[i], b.descendants[i])

\* C3: the round trip on structure: parse_node(tree.newick) has at every node
\* the name, the length and the number and order of children of tree.
C3_RoundTripShape ==
    phase \in {"parsed", "reserialized"} /\ tree # None =>
        result.raised = "" /\ SameShape(result.value, tree[1])

\* C5: newick is "(" + the children's newick joined by "," + ")" + label for
\* a Node with at least one child and label alone for a leaf, where label is
\* the name (or the empty text) followed by ":" + length when there is one.
C5_SerializeFormat ==
    phase = "serialized" =>
        LET n == tree[1]
            label == IF Truthy(n.length)
                     THEN OrEmpty(n.name) \o <<":">> \o n.length[1]
                     ELSE OrEmpty(n.name)
            kids == [i \in 1..Len(n.descendants) |-> newick(n.descendants[i])]
        IN  text = IF Len(n.descendants) >= 1
                   THEN <<"(">> \o join(",", kids) \o <<")">> \o label
                   ELSE label

\* ------------------------------------------------------------ claims: walk

\* The proper descendants of Node n in the tree as it was built.
RECURSIVE Below(_)
Below(n) ==
    UNION {{built[n][i]} \cup Below(built[n][i]) : i \in 1..Len(built[n])}

Subtree(n) == {n} \cup Below(n)

Yielded(s) == {s[i] : i \in 1..Len(s)}

Pos(s, x) == CHOOSE i \in 1..Len(s) : s[i] = x

NoRepeats(s) == \A i, j \in 1..Len(s) : s[i] = s[j] => i = j

\* Once a Node of a later sibling's subtree is yielded, the whole subtree of
\* every earlier sibling has been yielded before it.
SiblingOrder(s) ==
    \A p \in DOMAIN built : \A i, j \in 1..Len(built[p]) :
        i < j =>
            \A y \in Subtree(built[p][j]) \cap Yielded(s) :
                \A x \in Subtree(built[p][i]) :
                    x \in Yielded(s) /\ Pos(s, x) < Pos(s, y)

Names(s) == [i \in 1..Len(s) |-> nodes[s[i]].name[1][1]]

IsExampleTree == built = [j \in 1..5 |-> ChildrenOf(ExampleParents, j, FALSE)]

\* C7: a postorder walk yields no Node twice, yields a Node only after all of
\* its descendants, takes sibling subtrees in child order, and has yielded
\* every Node of the tree when it ends; on (a,(b,c)d)e it yields a, b, c, d, e.
C7_PostorderWalk ==
    \A w \in Walkers :
        wmode[w] = "postorder" =>
            /\ NoRepeats(out[w])
            /\ \A x \in Yielded(out[w]) : \A d \in Below(x) :
                 d \in Yielded(out[w]) /\ Pos(out[w], d) < Pos(out[w], x)
            /\ SiblingOrder(out[w])
            /\ (wpc[w] = "done" => Yielded(out[w]) = Subtree(root))
            /\ (wpc[w] = "done" /\ IsExampleTree
                    => Names(out[w]) = <<"a", "b", "c", "d", "e">>)

\* A postorder walk of (a,(b,c)d)e that has ended.
C7_Witness ==
    \E w \in Walkers :
        wmode[w] = "postorder" /\ wpc[w] = "done" /\ IsExampleTree
            /\ Len(out[w]) = 5

RECURSIVE PreorderAlone(_)
PreorderAlone(n) ==
    LET RECURSIVE Rest(_)
        Rest(i) == IF i > Len(built[n]) THEN <<>>
                   ELSE PreorderAlone(built[n][i]) \o Rest(i + 1)
    IN  <<n>> \o Rest(1)

RECURSIVE PostorderAlone(_)
PostorderAlone(n) ==
    LET RECURSIVE Rest(_)
        Rest(i) == IF i > Len(built[n]) THEN <<>>
                   ELSE PostorderAlone(built[n][i]) \o Rest(i + 1)
    IN  Rest(1) \o <<n>>

Alone(mode) ==
    IF mode = "postorder" THEN PostorderAlone(root) ELSE PreorderAlone(root)

IsPrefix(s, t) == Len(s) <= Len(t) /\ s = SubSeq(t, 1, Len(s))

\* Every Node has the name, the length and the descendants it was built with.
TreeIntact ==
    \A j \in DOMAIN built :
        /\ nodes[j].name = Some(<<Letters[j]>>)
        /\ nodes[j].length = None
        /\ heap[nodes[j].descendants] = built[j]

\* C9: no step of a walk, in either mode, changes a Node's name, length or
\* descendants, and two walks over one tree, interleaved in any way, each
\* yield what a walk alone yields: a prefix of it at every step, all of it
\* at the end.
C9_WalksDoNotInterfere ==
    /\ TreeIntact
    /\ \A w \in Walkers :
         /\ IsPrefix(out[w], Alone(wmode[w]))
         /\ (wpc[w] = "done" => out[w] = Alone(wmode[w]))

\* Two postorder walks of one tree, both under way, at different places.
C9_Witness ==
    /\ wpc[1] = "run" /\ wpc[2] = "run"
    /\ wmode[1] = "postorder" /\ wmode[2] = "postorder"
    /\ Len(out[1]) >= 2
    /\ Len(out[2]) = 1
    /\ Len(stack[2]) >= 2

\* The remaining children of Node n in postorder walk w.
Remaining(w, n) == heap[dmap[w][n]]

\* A step of the loop of postorder walk w: a push of the first remaining
\* child of the top, or a pop of the top, which is yielded and taken off the
\* front of its parent's remaining children.
LoopStep(w) ==
    LET top == stack[w][Len(stack[w])]
        rest == SubSeq(stack[w], 1, Len(stack[w]) - 1)
    IN  \/ /\ Remaining(w, top) # <<>>
           /\ stack'[w] = Append(stack[w], Remaining(w, top)[1])
           /\ out'[w] = out[w]
           /\ \A n \in DOMAIN dmap[w] : Remaining(w, n)' = Remaining(w, n)
        \/ /\ Remaining(w, top) = <<>>
           /\ stack'[w] = rest
           /\ out'[w] = Append(out[w], top)
           /\ \A n \in DOMAIN dmap[w] :
                Remaining(w, n)' =
                    IF rest # <<>> /\ n = rest[Len(rest)]
                    THEN Tail(Remaining(w, n))
                    ELSE Remaining(w, n)
           /\ rest # <<>> => Remaining(w, rest[Len(rest)])[1] = top

LoopChanges(w) ==
    \/ stack'[w] # stack[w]
    \/ out'[w] # out[w]
    \/ \E n \in DOMAIN dmap[w] : Remaining(w, n)' # Remaining(w, n)

\* The stack is the path from the root to its top.
StackIsPath(w) ==
    /\ stack[w] # <<>>
    /\ stack[w][1] = root
    /\ \A i \in 1..(Len(stack[w]) - 1) :
         \E k \in 1..Len(built[stack[w][i]]) :
            built[stack[w][i]][k] = stack[w][i + 1]

InLoop(w) == wmode[w] = "postorder" /\ wpc[w] = "run"

LoopOver(w) ==
    /\ wpc[w] = "done"
    /\ stack[w] = <<>>
    /\ \A n \in DOMAIN dmap[w] : Remaining(w, n) = <<>>

\* C10: the loop of _postorder ends on every tree: each of its steps pushes
\* the first remaining child of the top of the stack or pops the top, yields
\* it and takes it off its parent's remaining children; the stack is always
\* the path from the root to the current Node; and the loop reaches an empty
\* stack, where every list of remaining children is empty.
C10_PostorderLoopEnds ==
    /\ [](\A w \in Walkers :
            /\ InLoop(w) => StackIsPath(w)
            /\ (wmode[w] = "postorder" /\ wpc[w] = "done" => LoopOver(w)))
    /\ [][\A w \in Walkers : InLoop(w) /\ LoopChanges(w) => LoopStep(w)]_vars
    /\ \A w \in Walkers :
         (wmode[w] = "postorder" /\ wpc[w] = "new") ~> LoopOver(w)

\* The loop has ended on (a,(b,c)d)e.
C10_Witness ==
    \E w \in Walkers :
        /\ wmode[w] = "postorder"
        /\ LoopOver(w)
        /\ IsExampleTree
        /\ out[w] # <<>>

====
